---- MODULE Spec2Model ----
(***************************************************************************)
(* The four LLM workflow scripts of the repository as one state machine:   *)
(*   prompt_chaining.py   extract -> gate -> parse -> confirm              *)
(*   routing.py           route -> gate -> dispatch to one handler         *)
(*   parallelization.py   two checks under asyncio.gather -> combine       *)
(*   tool_calling.py      model call -> local function -> second call      *)
(* The hosted model and the local tools are the environment: every reply   *)
(* they can give (a document, unparseable text, a transport failure) is    *)
(* chosen nondeterministically when the blocked call returns.              *)
(*                                                                         *)
(* Confidence scores are floats in the source; here they are integers in   *)
(* units of 1e-8, so 0.7 is 70000000 and 0.70000001 is 70000001.           *)
(***************************************************************************)
EXTENDS Integers, Sequences, FiniteSets, TLC

VARIABLES
    script,               \* which script this process executes
    pc,                   \* where the entry point currently stands
    runs,                 \* entry-point calls the module-level driver has made
    calls,                \* model calls issued by the current run, in order
    replies,              \* what each model call of the current run came back with
    log,                  \* logger messages of the current run that mark a decision
    outcome,              \* running / return value / raised error of the current run
    user_input,           \* argument of the current entry-point call
    response_json,        \* prompt_chaining.process_calendar_request local
    event_details,        \* prompt_chaining.process_calendar_request local
    result_json,          \* routing.process_calendar_request local
    task,                 \* parallelization: state of the two gathered tasks
    ready,                \* parallelization: event loop's FIFO of runnable tasks
    slot,                 \* parallelization: result held by each finished task
    calendar_check_json,  \* parallelization.validate_request local
    security_check_json,  \* parallelization.validate_request local
    contents,             \* tool_calling: the caller's conversation list
    response,             \* tool_calling.gen_final_response local
    result,               \* tool_calling.gen_final_response local
    final_response,       \* tool_calling.gen_final_response local
    invoked               \* tool_calling: local functions invoked by the current run

vars == <<script, pc, runs, calls, replies, log, outcome, user_input, response_json, event_details,
          result_json, task, ready, slot, calendar_check_json,
          security_check_json, contents, response, result, final_response,
          invoked>>

chainVars == <<response_json, event_details>>
routeVars == <<result_json>>
parVars   == <<task, ready, slot, calendar_check_json, security_check_json>>
toolVars  == <<contents, response, result, final_response, invoked>>

(***************************************************************************)
(* Bounds and program constants                                            *)
(***************************************************************************)
\* entry-point calls made by one script's driver
MaxRuns == 2

\* the literal 0.7 of the gate checks, in units of 1e-8
Threshold == 70000000

\* confidence scores a model reply may carry (the code checks no range)
Scores == {-10000000, 0, 69999999, 70000000, 70000001, 90000000, 100000000,
           120000000}

\* the range the schemas' field descriptions declare for a confidence score:
\* "between 0 and 1", in units of 1e-8
ScoreRange == 0..100000000

Scripts == {"prompt_chaining", "routing", "parallelization", "tool_calling"}

(***************************************************************************)
(* Python values                                                           *)
(***************************************************************************)
None == [none |-> TRUE]

\* a Python str that may be compared with None
Str(s) == [str |-> s]

Running     == [kind |-> "running"]
Returned(v) == [kind |-> "return", value |-> v]
Raised(e)   == [kind |-> "raise", error |-> e]

(***************************************************************************)
(* The model service                                                       *)
(***************************************************************************)
\* text of a reply: a JSON document, or text json.loads cannot parse
JsonText(doc) == [json |-> TRUE, doc |-> doc]
Unparseable   == [json |-> FALSE, doc |-> None]

\* a types.Part: exactly one of text / function_call is set
TextPart(t)       == [text |-> t, function_call |-> None, function_response |-> None]
FunctionCallPart(fc) == [text |-> None, function_call |-> fc, function_response |-> None]

\* GenerateContentResponse: response.candidates[0].content.parts[0]
Envelope(part) ==
    [candidates |-> <<[content |-> [role |-> "model", parts |-> <<part>>]]>>]

TransportError == [transport_error |-> TRUE]

FirstPart(r) == r.candidates[1].content.parts[1]

\* json.loads: raises JSONDecodeError on text that is not JSON
json_loads_raises(t) == ~t.json
json_loads(t) == t.doc

\* a user turn holding one text part
UserTurn(t) == [role |-> "user", parts |-> <<TextPart(t)>>]

\* run_model: client.models.generate_content either raises or returns an envelope
StructuredReplies(docs) ==
    {TransportError} \cup {Envelope(TextPart(Unparseable))}
        \cup {Envelope(TextPart(JsonText(d))) : d \in docs}

IsTransportError(r) == r = TransportError

\* the call fails: transport error, or the stage's own json.loads raises
CallFails(r) == IsTransportError(r) \/ json_loads_raises(FirstPart(r).text)
FailureOf(r) == IF IsTransportError(r) THEN "TransportError" ELSE "JSONDecodeError"

Call(fn, content) == [fn |-> fn, content |-> content]
Reply(fn, reply)  == [fn |-> fn, reply |-> reply]

UserInputs == {Str("Schedule a team meeting"), Str("What's the weather like today?")}

(***************************************************************************)
(* routing.py                                                              *)
(***************************************************************************)
\* request_type: the declared enumeration plus a value outside it
RequestTypes == {"new_event", "modify_event", "other", "delete_event"}

CalendarRequestTypeDocs ==
    [request_type : RequestTypes, confidence_score : Scores,
     description : {Str("team meeting Tuesday 2pm")}]

NewEventDetailsDocs ==
    {[name |-> "Team meeting", date |-> "2026-11-10T14:00",
      duration_minutes |-> 60, participants |-> <<"Alice", "Bob">>]}

ModifyEventDetailsDocs ==
    {[event_identifier |-> "Team meeting", changes |-> <<>>,
      participants_to_add |-> <<>>, participants_to_remove |-> <<>>]}

\* the gate with the boundary score rejected as well
routing_gate_rejects_at_threshold(rj) == rj.confidence_score <= Threshold

\* line 179: if result_json["confidence_score"] < 0.7: return None
routing_gate_rejects(rj) == rj.confidence_score < Threshold

\* lines 131-135
NewCalendarResponse(doc) ==
    [success |-> TRUE, message |-> <<"New calendar event", doc.name, doc.date,
                                     doc.participants>>,
     calendar_link |-> <<"calendar://new?event=", doc.name>>]

\* lines 161-165
ModifyCalendarResponse(doc) ==
    [success |-> TRUE, message |-> <<"Modified calendar event", doc.event_identifier>>,
     calendar_link |-> <<"calendar://modify?event=", doc.event_identifier>>]

\* lines 167-172, 82-98: entry, then the router's model call is issued
routing_process_calendar_request(input) ==
    /\ user_input' = input
    /\ script = "routing" /\ pc = "idle" /\ runs < MaxRuns
    /\ runs' = runs + 1
    /\ pc' = "route_calendar_request"
    /\ calls' = <<Call("route_calendar_request", input)>>
    /\ replies' = <<>>
    /\ log' = <<>>
    /\ outcome' = Running
    /\ result_json' = None
    /\ UNCHANGED <<script, chainVars, parVars, toolVars>>

\* a dispatch whose final branch falls back to the new-event handler
routing_dispatch_defaulting(rj) ==
    IF rj.request_type = "modify_event"
    THEN /\ pc' = "handle_modify_event"
         /\ calls' = Append(calls, Call("handle_modify_event", rj.description))
         /\ log' = log
         /\ outcome' = outcome
    ELSE /\ pc' = "handle_new_event"
         /\ calls' = Append(calls, Call("handle_new_event", rj.description))
         /\ log' = log
         /\ outcome' = outcome

\* lines 183-190: dispatch on request_type
routing_dispatch(rj) ==
    IF rj.request_type = "new_event"
    THEN /\ pc' = "handle_new_event"
         /\ calls' = Append(calls, Call("handle_new_event", rj.description))
         /\ log' = log
         /\ outcome' = outcome
    ELSE IF rj.request_type = "modify_event"
    THEN /\ pc' = "handle_modify_event"
         /\ calls' = Append(calls, Call("handle_modify_event", rj.description))
         /\ log' = log
         /\ outcome' = outcome
    ELSE /\ pc' = "done"
         /\ calls' = calls
         /\ log' = Append(log, "Request type not supported")
         /\ outcome' = Returned(None)

\* lines 98-105, 172-190: the router's call returns; parse, gate, dispatch
route_calendar_request_returns(reply) ==
    /\ replies' = Append(replies, Reply("route_calendar_request", reply))
    /\ script = "routing" /\ pc = "route_calendar_request"
    /\ IF CallFails(reply)
       THEN /\ pc' = "done"
            /\ outcome' = Raised(FailureOf(reply))
            /\ UNCHANGED <<calls, log, result_json>>
       ELSE LET rj == json_loads(FirstPart(reply).text) IN
            /\ result_json' = rj
            /\ IF routing_gate_rejects(rj)
               THEN /\ pc' = "done"
                    /\ log' = Append(log, "Low confidence score")
                    /\ outcome' = Returned(None)
                    /\ calls' = calls
               ELSE routing_dispatch(rj)
    /\ UNCHANGED <<script, user_input, runs, chainVars, parVars, toolVars>>

\* lines 123-135: the handler's call returns
handle_new_event_returns(reply) ==
    /\ replies' = Append(replies, Reply("handle_new_event", reply))
    /\ script = "routing" /\ pc = "handle_new_event"
    /\ pc' = "done"
    /\ outcome' = IF CallFails(reply) THEN Raised(FailureOf(reply))
                  ELSE Returned(NewCalendarResponse(json_loads(FirstPart(reply).text)))
    /\ UNCHANGED <<script, user_input, runs, calls, log, routeVars, chainVars, parVars, toolVars>>

\* lines 153-165
handle_modify_event_returns(reply) ==
    /\ replies' = Append(replies, Reply("handle_modify_event", reply))
    /\ script = "routing" /\ pc = "handle_modify_event"
    /\ pc' = "done"
    /\ outcome' = IF CallFails(reply) THEN Raised(FailureOf(reply))
                  ELSE Returned(ModifyCalendarResponse(json_loads(FirstPart(reply).text)))
    /\ UNCHANGED <<script, user_input, runs, calls, log, routeVars, chainVars, parVars, toolVars>>

(***************************************************************************)
(* prompt_chaining.py                                                      *)
(***************************************************************************)
EventExtractionDocs ==
    [description : {Str("Dentist appointment Friday 8:30")},
     is_calendar_event : BOOLEAN, confidence_score : Scores]

EventDetailsDocs ==
    {[name |-> "Dentist", date |-> "2026-11-06T08:30", duration_minutes |-> d,
      participants |-> <<>>] : d \in {60, 90}}

EventConfirmationDocs ==
    {[confirmation_message |-> "Confirmed. Susie", calendar_link |-> None]}

\* pydantic's BaseModel.model_dump_json: the JSON text of the object it is called on
model_dump_json(obj) == JsonText(obj)

\* the gate on the confidence score alone
chain_gate_rejects_confidence_only(rj) == rj.confidence_score < Threshold

\* lines 161-164: not is_calendar_event or confidence_score < 0.7
chain_gate_rejects(rj) ==
    \/ ~rj.is_calendar_event
    \/ rj.confidence_score < Threshold

\* lines 151-157, 70-90: entry, then the first model call is issued
chain_process_calendar_request(input) ==
    /\ user_input' = input
    /\ script = "prompt_chaining" /\ pc = "idle" /\ runs < MaxRuns
    /\ runs' = runs + 1
    /\ pc' = "extract_event_info"
    /\ calls' = <<Call("extract_event_info", input)>>
    /\ replies' = <<>>
    /\ log' = <<>>
    /\ outcome' = Running
    /\ response_json' = None
    /\ event_details' = None
    /\ UNCHANGED <<script, routeVars, parVars, toolVars>>

\* the gate step issuing the third stage's call together with the second's,
\* without waiting for the second to return
chain_gate_issuing_ahead(reply) ==
    LET rj == json_loads(FirstPart(reply).text) IN
    /\ response_json' = rj
    /\ IF chain_gate_rejects(rj)
       THEN /\ pc' = "done"
            /\ log' = Append(log, "Gate check failed")
            /\ outcome' = Returned(None)
            /\ calls' = calls
       ELSE /\ pc' = "generate_confirmation"
            /\ log' = Append(log, "Gate check passed")
            /\ outcome' = outcome
            /\ calls' = calls \o <<Call("parse_event_details", rj.description),
                                   Call("generate_confirmation", rj.description)>>

\* lines 158-173, 99-118: parse the first response, check the gate, and on a
\* pass issue the second call with the extracted description
chain_gate(reply) ==
    LET rj == json_loads(FirstPart(reply).text) IN
    /\ response_json' = rj
    /\ IF chain_gate_rejects(rj)
       THEN /\ pc' = "done"
            /\ log' = Append(log, "Gate check failed")
            /\ outcome' = Returned(None)
            /\ calls' = calls
       ELSE /\ pc' = "parse_event_details"
            /\ log' = Append(log, "Gate check passed")
            /\ outcome' = outcome
            /\ calls' = Append(calls, Call("parse_event_details", rj.description))

\* the first stage with its failure caught and turned into "no result"
extract_event_info_returns_swallowing(reply) ==
    /\ replies' = Append(replies, Reply("extract_event_info", reply))
    /\ script = "prompt_chaining" /\ pc = "extract_event_info"
    /\ IF CallFails(reply)
       THEN /\ pc' = "done"
            /\ outcome' = Returned(None)
            /\ UNCHANGED <<calls, log, response_json>>
       ELSE chain_gate(reply)
    /\ UNCHANGED <<script, user_input, runs, event_details, routeVars, parVars, toolVars>>

\* lines 90-97, 157-173: the first call returns; a failed call raises
extract_event_info_returns(reply) ==
    /\ replies' = Append(replies, Reply("extract_event_info", reply))
    /\ script = "prompt_chaining" /\ pc = "extract_event_info"
    /\ IF CallFails(reply)
       THEN /\ pc' = "done"
            /\ outcome' = Raised(FailureOf(reply))
            /\ UNCHANGED <<calls, log, response_json>>
       ELSE chain_gate(reply)
    /\ UNCHANGED <<script, user_input, runs, event_details, routeVars, parVars, toolVars>>

\* lines 118-126, 173-176, 128-144: the second call returns the response object,
\* which is bound to event_details and handed to generate_confirmation
parse_event_details_returns(reply) ==
    /\ replies' = Append(replies, Reply("parse_event_details", reply))
    /\ script = "prompt_chaining" /\ pc = "parse_event_details"
    /\ IF CallFails(reply)
       THEN /\ pc' = "done"
            /\ outcome' = Raised(FailureOf(reply))
            /\ UNCHANGED <<calls, event_details>>
       ELSE /\ event_details' = reply
            /\ pc' = "generate_confirmation"
            /\ outcome' = outcome
            /\ calls' = Append(calls, Call("generate_confirmation",
                                           model_dump_json(reply)))
    /\ UNCHANGED <<script, user_input, runs, log, response_json, routeVars, parVars, toolVars>>

\* lines 144-149, 176-179: the third call returns; its response object is returned
generate_confirmation_returns(reply) ==
    /\ replies' = Append(replies, Reply("generate_confirmation", reply))
    /\ script = "prompt_chaining" /\ pc = "generate_confirmation"
    /\ pc' = "done"
    /\ IF CallFails(reply)
       THEN /\ outcome' = Raised(FailureOf(reply))
            /\ log' = log
       ELSE /\ outcome' = Returned(reply)
            /\ log' = Append(log, "Calendar request processing completed successfully")
    /\ UNCHANGED <<script, user_input, runs, calls, chainVars, routeVars, parVars, toolVars>>

(***************************************************************************)
(* parallelization.py                                                      *)
(***************************************************************************)
Tasks == {"validate_calendar_request", "check_security"}

CalendarValidationDocs ==
    [is_calendar_request : BOOLEAN, confidence_score : Scores]

SecurityCheckDocs ==
    [is_safe : BOOLEAN, risk_flags : {<<>>, <<"prompt_injection">>}]

\* the combination without the security check
is_valid_ignoring_safety(cal, sec) ==
    /\ cal.is_calendar_request
    /\ cal.confidence_score > Threshold

\* lines 125-129
is_valid(cal, sec) ==
    /\ cal.is_calendar_request
    /\ cal.confidence_score > Threshold
    /\ sec.is_safe

\* line 118, asyncio.gather without return_exceptions: the awaiting coroutine is
\* woken when every awaitable has finished, or as soon as one has raised
gather_wakes ==
    \/ \A t \in Tasks : task[t] = "done"
    \/ \E t \in Tasks : task[t] = "failed"

\* lines 116-120: gather wraps both coroutines in tasks, schedules them in
\* argument order and suspends validate_request
validate_request(input) ==
    /\ user_input' = input
    /\ script = "parallelization" /\ pc = "idle" /\ runs < MaxRuns
    /\ runs' = runs + 1
    /\ pc' = "gather"
    /\ calls' = <<>>
    /\ replies' = <<>>
    /\ log' = <<>>
    /\ outcome' = Running
    /\ task' = [t \in Tasks |-> "scheduled"]
    /\ ready' = <<"validate_calendar_request", "check_security">>
    /\ slot' = [t \in Tasks |-> None]
    /\ calendar_check_json' = None
    /\ security_check_json' = None
    /\ UNCHANGED <<script, chainVars, routeVars, toolVars>>

\* lines 60-77 and 86-103, 47-52: the loop runs the task at the head of its
\* FIFO up to the await of the model call, which is then in flight
task_step(t) ==
    /\ replies' = replies
    /\ script = "parallelization"
    /\ ready # <<>> /\ Head(ready) = t
    /\ task[t] = "scheduled"
    /\ ready' = Tail(ready)
    /\ task' = [task EXCEPT ![t] = "inflight"]
    /\ calls' = Append(calls, Call(t, user_input))
    /\ UNCHANGED <<script, user_input, pc, runs, log, outcome, slot, calendar_check_json,
                   security_check_json, chainVars, routeVars, toolVars>>

\* a completion delivered while the other task has not been started yet, as
\* when the two checks are awaited one after the other
run_model_returns_sequentially(t, reply) ==
    /\ replies' = Append(replies, Reply(t, reply))
    /\ script = "parallelization"
    /\ task[t] = "inflight"
    /\ IF IsTransportError(reply)
       THEN /\ task' = [task EXCEPT ![t] = "failed"]
            /\ slot' = slot
       ELSE /\ task' = [task EXCEPT ![t] = "done"]
            /\ slot' = [slot EXCEPT ![t] = reply]
    /\ UNCHANGED <<script, user_input, pc, runs, calls, log, outcome, ready,
                   calendar_check_json, security_check_json,
                   chainVars, routeVars, toolVars>>

\* lines 48-53, 84, 110: a call in flight completes (the loop polls for I/O
\* only once its FIFO of runnable tasks has been run); the task returns the
\* response object or raises the transport error
run_model_returns(t, reply) ==
    /\ replies' = Append(replies, Reply(t, reply))
    /\ script = "parallelization"
    /\ task[t] = "inflight"
    /\ ready = <<>>
    /\ IF IsTransportError(reply)
       THEN /\ task' = [task EXCEPT ![t] = "failed"]
            /\ slot' = slot
       ELSE /\ task' = [task EXCEPT ![t] = "done"]
            /\ slot' = [slot EXCEPT ![t] = reply]
    /\ UNCHANGED <<script, user_input, pc, runs, calls, log, outcome, ready,
                   calendar_check_json, security_check_json,
                   chainVars, routeVars, toolVars>>

\* a combine step that decides on the check that answered first alone
combine_first_completed(calendar_check, security_check) ==
    IF json_loads_raises(FirstPart(calendar_check).text)
    THEN /\ outcome' = Raised("JSONDecodeError")
         /\ UNCHANGED <<log, calendar_check_json, security_check_json>>
    ELSE /\ calendar_check_json' = json_loads(FirstPart(calendar_check).text)
         /\ IF json_loads_raises(FirstPart(security_check).text)
            THEN /\ outcome' = Raised("JSONDecodeError")
                 /\ UNCHANGED <<log, security_check_json>>
            ELSE LET cal == json_loads(FirstPart(calendar_check).text)
                     sec == json_loads(FirstPart(security_check).text)
                     first == IF replies[1].fn = "check_security"
                              THEN sec.is_safe
                              ELSE cal.is_calendar_request
                                   /\ cal.confidence_score > Threshold
                 IN  /\ security_check_json' = sec
                     /\ outcome' = Returned(first)
                     /\ log' = IF first THEN log
                               ELSE Append(log, "Validation failed")

\* lines 122-138: parse both results, combine, warn, return
combine(calendar_check, security_check) ==
    IF json_loads_raises(FirstPart(calendar_check).text)
    THEN /\ outcome' = Raised("JSONDecodeError")
         /\ UNCHANGED <<log, calendar_check_json, security_check_json>>
    ELSE /\ calendar_check_json' = json_loads(FirstPart(calendar_check).text)
         /\ IF json_loads_raises(FirstPart(security_check).text)
            THEN /\ outcome' = Raised("JSONDecodeError")
                 /\ UNCHANGED <<log, security_check_json>>
            ELSE LET cal == json_loads(FirstPart(calendar_check).text)
                     sec == json_loads(FirstPart(security_check).text)
                 IN  /\ security_check_json' = sec
                     /\ outcome' = Returned(is_valid(cal, sec))
                     /\ log' = IF is_valid(cal, sec) THEN log
                               ELSE Append(log, "Validation failed")

\* the same resumption with the failure of a check swallowed into "not valid"
validate_request_resumes_swallowing ==
    /\ replies' = replies
    /\ script = "parallelization" /\ pc = "gather"
    /\ gather_wakes
    /\ pc' = "done"
    /\ IF \E t \in Tasks : task[t] = "failed"
       THEN /\ outcome' = Returned(FALSE)
            /\ UNCHANGED <<log, calendar_check_json, security_check_json>>
       ELSE combine(slot["validate_calendar_request"], slot["check_security"])
    /\ UNCHANGED <<script, user_input, runs, calls, task, ready, slot, chainVars,
                   routeVars, toolVars>>

\* lines 118-138: validate_request resumes from the gather: the exception of a
\* failed check propagates, otherwise both results are unpacked and combined
validate_request_resumes ==
    /\ replies' = replies
    /\ script = "parallelization" /\ pc = "gather"
    /\ gather_wakes
    /\ pc' = "done"
    /\ IF \E t \in Tasks : task[t] = "failed"
       THEN /\ outcome' = Raised("TransportError")
            /\ UNCHANGED <<log, calendar_check_json, security_check_json>>
       ELSE combine(slot["validate_calendar_request"], slot["check_security"])
    /\ UNCHANGED <<script, user_input, runs, calls, task, ready, slot, chainVars,
                   routeVars, toolVars>>

\* lines 173-174: asyncio.run cancels the tasks still pending when main() has
\* ended with the exception
asyncio_run_cancels(t) ==
    /\ replies' = replies
    /\ script = "parallelization" /\ pc = "done" /\ outcome.kind = "raise"
    /\ task[t] = "inflight"
    /\ task' = [task EXCEPT ![t] = "cancelled"]
    /\ UNCHANGED <<script, user_input, pc, runs, calls, log, outcome, ready, slot,
                   calendar_check_json, security_check_json,
                   chainVars, routeVars, toolVars>>

(***************************************************************************)
(* tool_calling.py                                                         *)
(***************************************************************************)
Prompts == {Str("What is the weather like in London?"),
            Str("What is the return policy?")}

WeatherArgs == [latitude |-> 51, longitude |-> 0]
KbArgs      == [query |-> "return policy"]

\* function calls the model may request: the two declared names and one that
\* is not declared, each with either argument mapping
FunctionCalls ==
    [name : {"get_weather", "search_kb", "send_email"}, args : {WeatherArgs, KbArgs}]

Answers == {Str("It is 12 degrees in London."), Str("Returns within 30 days.")}

ToolReplies ==
    {TransportError}
        \cup {Envelope(TextPart(a)) : a \in Answers}
        \cup {Envelope(FunctionCallPart(fc)) : fc \in FunctionCalls}

\* what the local functions can give back: a value, or an error of their own I/O
WeatherResults == {[temperature_2m |-> 12], [temperature_2m |-> 20]}
KbResults      == {[records |-> <<"Returns within 30 days">>]}
ToolError      == [tool_error |-> TRUE]

\* a text accessor that yields nothing for every response
Text_nothing(r) == None

\* GenerateContentResponse.text: the text of the part, None for a function call
Text(r) == FirstPart(r).text

\* dispatch by dynamic lookup: every requested name is taken
declared_any(name) == TRUE

\* lines 32-38: the names call_function dispatches on
declared(name) == name \in {"get_weather", "search_kb"}

\* lines 21, 27: the keyword parameters each function accepts (f(**args))
accepts(name, args) ==
    IF name = "get_weather" THEN DOMAIN args = {"latitude", "longitude"}
    ELSE DOMAIN args = {"query"}

\* a function response part that does not carry the function's result
from_function_response_dropping(name, res) ==
    [text |-> None, function_call |-> None,
     function_response |-> [name |-> name, response |-> [result |-> None]]]

\* lines 54-57: types.Part.from_function_response
from_function_response(name, res) ==
    [text |-> None, function_call |-> None,
     function_response |-> [name |-> name, response |-> [result |-> res]]]

\* lines 59-60: the two turns appended to the conversation
extended(conv, resp, res) ==
    conv \o <<resp.candidates[1].content,
              [role |-> "user",
               parts |-> <<from_function_response(FirstPart(resp).function_call.name,
                                                  res)>>]>>

\* a driver that keeps one conversation list and adds each new prompt to it
gen_final_response_reusing(prompt) ==
    /\ script = "tool_calling" /\ pc = "idle" /\ runs < MaxRuns
    /\ runs' = runs + 1
    /\ user_input' = prompt
    /\ contents' = Append(contents, UserTurn(prompt))
    /\ calls' = <<Call("run_model", Append(contents, UserTurn(prompt)))>>
    /\ pc' = "run_model"
    /\ replies' = <<>>
    /\ log' = <<>>
    /\ outcome' = Running
    /\ response' = None
    /\ result' = None
    /\ final_response' = None
    /\ invoked' = <<>>
    /\ UNCHANGED <<script, chainVars, routeVars, parVars>>

\* lines 105-112 (and 115-122): the driver builds a fresh one-turn conversation
\* and calls gen_final_response, which issues the first model call (line 49)
gen_final_response(prompt) ==
    /\ script = "tool_calling" /\ pc = "idle" /\ runs < MaxRuns
    /\ runs' = runs + 1
    /\ user_input' = prompt
    /\ contents' = <<UserTurn(prompt)>>
    /\ calls' = <<Call("run_model", <<UserTurn(prompt)>>)>>
    /\ pc' = "run_model"
    /\ replies' = <<>>
    /\ log' = <<>>
    /\ outcome' = Running
    /\ response' = None
    /\ result' = None
    /\ final_response' = None
    /\ invoked' = <<>>
    /\ UNCHANGED <<script, chainVars, routeVars, parVars>>

\* lines 49-52, 32-38, 64-65: the first call returns; a direct answer is
\* returned, a function call is dispatched by name
run_model_first_returns(reply) ==
    /\ replies' = Append(replies, Reply("run_model", reply))
    /\ script = "tool_calling" /\ pc = "run_model"
    /\ IF IsTransportError(reply)
       THEN /\ pc' = "done"
            /\ outcome' = Raised("TransportError")
            /\ UNCHANGED <<response, invoked>>
       ELSE /\ response' = reply
            /\ IF FirstPart(reply).function_call # None
               THEN LET function_call == FirstPart(reply).function_call IN
                    IF ~declared(function_call.name)
                    THEN /\ pc' = "done"
                         /\ outcome' = Raised("ValueError")
                         /\ invoked' = invoked
                    ELSE IF ~accepts(function_call.name, function_call.args)
                    THEN /\ pc' = "done"
                         /\ outcome' = Raised("TypeError")
                         /\ invoked' = invoked
                    ELSE /\ pc' = "call_function"
                         /\ outcome' = outcome
                         /\ invoked' = Append(invoked, function_call)
               ELSE /\ pc' = "done"
                    /\ outcome' = Returned(Text(reply))
                    /\ invoked' = invoked
    /\ UNCHANGED <<script, user_input, runs, calls, log, contents, result,
                   final_response, chainVars, routeVars, parVars>>

\* lines 52-62: the local function returns (or raises); its result is wrapped,
\* both turns are appended to the caller's list and the second call is issued
call_function_returns(result_) ==
    /\ replies' = replies
    /\ script = "tool_calling" /\ pc = "call_function"
    /\ IF result_ = ToolError
       THEN /\ pc' = "done"
            /\ outcome' = Raised("ToolError")
            /\ UNCHANGED <<contents, calls, result>>
       ELSE /\ pc' = "final_run_model"
            /\ outcome' = outcome
            /\ result' = result_
            /\ contents' = extended(contents, response, result_)
            /\ calls' = Append(calls, Call("run_model",
                                           extended(contents, response, result_)))
    /\ UNCHANGED <<script, user_input, runs, log, response, final_response,
                   invoked, chainVars, routeVars, parVars>>

\* a second response that requests a function starts another round
run_model_final_returns_looping(reply) ==
    /\ replies' = Append(replies, Reply("run_model", reply))
    /\ script = "tool_calling" /\ pc = "final_run_model"
    /\ IF IsTransportError(reply)
       THEN /\ pc' = "done"
            /\ outcome' = Raised("TransportError")
            /\ UNCHANGED <<final_response, invoked>>
       ELSE /\ final_response' = reply
            /\ IF FirstPart(reply).function_call # None
               THEN /\ pc' = "done"
                    /\ outcome' = outcome
                    /\ invoked' = Append(invoked, FirstPart(reply).function_call)
               ELSE /\ pc' = "done"
                    /\ outcome' = Returned(Text(reply))
                    /\ invoked' = invoked
    /\ UNCHANGED <<script, user_input, runs, calls, log, contents, response, result,
                   chainVars, routeVars, parVars>>

\* lines 62-63: the second call returns and its text is returned
run_model_final_returns(reply) ==
    /\ replies' = Append(replies, Reply("run_model", reply))
    /\ script = "tool_calling" /\ pc = "final_run_model"
    /\ pc' = "done"
    /\ IF IsTransportError(reply)
       THEN /\ outcome' = Raised("TransportError")
            /\ final_response' = final_response
       ELSE /\ outcome' = Returned(Text(reply))
            /\ final_response' = reply
    /\ UNCHANGED <<script, user_input, runs, calls, log, contents, response, result,
                   invoked, chainVars, routeVars, parVars>>

(***************************************************************************)
(* The module-level drivers                                                *)
(***************************************************************************)
\* a call that returned lets the script go on to its next call; an uncaught
\* exception ends the process
driver_continues ==
    /\ replies' = replies
    /\ pc = "done" /\ outcome.kind = "return"
    /\ pc' = "idle"
    /\ UNCHANGED <<script, user_input, runs, calls, log, outcome, chainVars, routeVars,
                   parVars, toolVars>>

Init ==
    /\ script \in Scripts
    /\ pc = "idle"
    /\ runs = 0
    /\ calls = <<>>
    /\ replies = <<>>
    /\ log = <<>>
    /\ outcome = Running
    /\ user_input = None
    /\ response_json = None
    /\ event_details = None
    /\ result_json = None
    /\ task = [t \in Tasks |-> "none"]
    /\ ready = <<>>
    /\ slot = [t \in Tasks |-> None]
    /\ calendar_check_json = None
    /\ security_check_json = None
    /\ contents = <<>>
    /\ response = None
    /\ result = None
    /\ final_response = None
    /\ invoked = <<>>

Next ==
    \/ \E u \in UserInputs : routing_process_calendar_request(u)
    \/ \E r \in StructuredReplies(CalendarRequestTypeDocs) : route_calendar_request_returns(r)
    \/ \E r \in StructuredReplies(NewEventDetailsDocs) : handle_new_event_returns(r)
    \/ \E r \in StructuredReplies(ModifyEventDetailsDocs) : handle_modify_event_returns(r)
    \/ \E u \in UserInputs : chain_process_calendar_request(u)
    \/ \E r \in StructuredReplies(EventExtractionDocs) : extract_event_info_returns(r)
    \/ \E r \in StructuredReplies(EventDetailsDocs) : parse_event_details_returns(r)
    \/ \E r \in StructuredReplies(EventConfirmationDocs) : generate_confirmation_returns(r)
    \/ \E u \in UserInputs : validate_request(u)
    \/ \E t \in Tasks : task_step(t)
    \/ \E r \in StructuredReplies(CalendarValidationDocs) :
            run_model_returns("validate_calendar_request", r)
    \/ \E r \in StructuredReplies(SecurityCheckDocs) :
            run_model_returns("check_security", r)
    \/ validate_request_resumes
    \/ \E t \in Tasks : asyncio_run_cancels(t)
    \/ \E p \in Prompts : gen_final_response(p)
    \/ \E r \in ToolReplies : run_model_first_returns(r)
    \/ \E x \in WeatherResults \cup {ToolError} :
            /\ invoked # <<>> /\ invoked[Len(invoked)].name = "get_weather"
            /\ call_function_returns(x)
    \/ \E x \in KbResults \cup {ToolError} :
            /\ invoked # <<>> /\ invoked[Len(invoked)].name = "search_kb"
            /\ call_function_returns(x)
    \/ \E r \in ToolReplies : run_model_final_returns(r)
    \/ driver_continues

Spec == Init /\ [][Next]_vars

(***************************************************************************)
(* Properties                                                              *)
(***************************************************************************)
Logged(m) == \E i \in DOMAIN log : log[i] = m

\* the router's reply has been parsed by routing.process_calendar_request
Routed == script = "routing" /\ result_json # None

\* the first reply has been parsed by prompt_chaining.process_calendar_request
Extracted == script = "prompt_chaining" /\ response_json # None

\* validate_request has returned a value
Validated == script = "parallelization" /\ outcome.kind = "return"

\* the i-th model call of the run came back failed
FailedAt(i) == i \in DOMAIN replies /\ CallFails(replies[i].reply)

\* C1 as stated: in both gated pipelines the gate passes iff c > 0.7, so a
\* score of exactly 0.7 is rejected.
C1_GatePassesIffAboveThreshold ==
    /\ Routed =>
         (~Logged("Low confidence score") <=> result_json.confidence_score > Threshold)
    /\ (Extracted /\ response_json.is_calendar_event) =>
         (Len(calls) >= 2 <=> response_json.confidence_score > Threshold)

\* C1 amended: in both gated pipelines the gate rejects iff c < 0.7, so every
\* score c >= 0.7, 0.7 itself included, passes; a rejected run returns None
\* after its single call, and a run of the prompt chain that passes issues
\* the downstream call.
C1_GatePassesIffAtLeastThreshold ==
    /\ Routed =>
         /\ Logged("Low confidence score") <=> result_json.confidence_score < Threshold
         /\ Logged("Low confidence score") => outcome = Returned(None) /\ Len(calls) = 1
    /\ (Extracted /\ response_json.is_calendar_event) =>
         /\ Len(calls) < 2 <=> response_json.confidence_score < Threshold
         /\ Len(calls) < 2 => outcome = Returned(None) /\ Logged("Gate check failed")

\* a routed run whose score is exactly 0.7 has gone on to a handler
C1_Witness ==
    /\ Routed /\ result_json.confidence_score = Threshold
    /\ pc = "handle_new_event" /\ Len(calls) = 2

\* C2: validate_request returns is_calendar_request AND confidence_score > 0.7
\* AND is_safe: it returns True exactly when all three hold, so flipping any
\* one of them from an all-true input gives False, and is_safe = False gives
\* False whatever the calendar check returned.
C2_IsValidIsConjunction ==
    Validated =>
        /\ outcome.value = TRUE <=>
             /\ calendar_check_json.is_calendar_request = TRUE
             /\ calendar_check_json.confidence_score > Threshold
             /\ security_check_json.is_safe = TRUE
        /\ ~security_check_json.is_safe => outcome.value = FALSE
        /\ ~calendar_check_json.is_calendar_request => outcome.value = FALSE
        /\ calendar_check_json.confidence_score <= Threshold => outcome.value = FALSE

\* an unsafe input with a confident calendar check has been found not valid
C2_Witness ==
    /\ Validated /\ outcome.value = FALSE
    /\ ~security_check_json.is_safe
    /\ security_check_json.risk_flags = <<"prompt_injection">>
    /\ calendar_check_json.is_calendar_request
    /\ calendar_check_json.confidence_score = 90000000

\* C3: in routing, a request_type other than new_event or modify_event makes
\* the run return None with neither handler called, for every confidence score.
C3_UnsupportedTypeReturnsNone ==
    (Routed /\ result_json.request_type \notin {"new_event", "modify_event"}) =>
        /\ outcome = Returned(None)
        /\ pc \in {"done", "idle"}
        /\ Len(calls) = 1
        /\ \A i \in DOMAIN calls :
               calls[i].fn \notin {"handle_new_event", "handle_modify_event"}

\* the router said "other" with confidence 0.9 and the run returned None
C3_Witness ==
    /\ Routed /\ result_json.request_type = "other"
    /\ result_json.confidence_score = 90000000
    /\ outcome = Returned(None) /\ Logged("Request type not supported")

\* C4: both validation calls are in flight together (neither completes while
\* the other has not been issued), and the combine step runs, and a result
\* slot is read, only once both calls have completed.
C4_JoinOnAll ==
    script = "parallelization" =>
        /\ (\E t \in Tasks : task[t] \in {"done", "failed"}) =>
               (\A u \in Tasks : task[u] # "scheduled" /\
                                 \E i \in DOMAIN calls : calls[i].fn = u)
        /\ (\/ outcome.kind = "return"
            \/ calendar_check_json # None
            \/ security_check_json # None
            \/ Logged("Validation failed")) =>
               \A t \in Tasks : task[t] = "done" /\ slot[t] # None

\* both calls are in flight and validate_request is suspended on the gather
C4_Witness ==
    /\ script = "parallelization" /\ pc = "gather"
    /\ \A t \in Tasks : task[t] = "inflight"
    /\ Len(calls) = 2

\* C5: if either validation call fails (transport error, or a reply that does
\* not parse), in any order of completion, validate_request raises and never
\* returns an is_valid value.
C5_FailedCheckRaises ==
    script = "parallelization" =>
        /\ Validated =>
               /\ \A t \in Tasks : task[t] = "done"
               /\ \A i \in DOMAIN replies : ~CallFails(replies[i].reply)
        /\ (pc = "done" /\ \E i \in DOMAIN replies : CallFails(replies[i].reply)) =>
               outcome.kind = "raise"

\* the security check failed after the calendar check had completed, and the
\* run raised
C5_Witness ==
    /\ script = "parallelization" /\ pc = "done" /\ outcome.kind = "raise"
    /\ task["validate_calendar_request"] = "done"
    /\ task["check_security"] = "failed"
    /\ Len(replies) = 2 /\ replies[1].fn = "validate_calendar_request"

\* the turn gen_final_response appends for the function's result
ResultTurn == calls[2].content[Len(calls[2].content)]

\* C6: on a function-call request for a declared function, gen_final_response
\* first invokes that function with the requested arguments (nothing appended,
\* no second call yet); then the conversation grows by exactly two turns, the
\* model's function-call message and a user turn carrying the function's
\* result unchanged; then one more model call is issued on the extended
\* conversation, and its text is what is returned.
C6_ToolRoundOrder ==
    script = "tool_calling" =>
        /\ pc = "call_function" =>
               /\ invoked = <<FirstPart(response).function_call>>
               /\ Len(calls) = 1 /\ contents = calls[1].content
        /\ Len(calls) >= 2 =>
               /\ Len(calls) = 2
               /\ invoked = <<FirstPart(response).function_call>>
               /\ Len(calls[2].content) = Len(calls[1].content) + 2
               /\ calls[2].content =
                      calls[1].content \o <<response.candidates[1].content, ResultTurn>>
               /\ ResultTurn.role = "user"
               /\ ResultTurn.parts[1].function_response.name = invoked[1].name
               /\ ResultTurn.parts[1].function_response.response.result = result
               /\ result \in WeatherResults \cup KbResults
               /\ contents = calls[2].content
        /\ (Len(calls) >= 2 /\ outcome.kind = "return") =>
               /\ Len(replies) = 2
               /\ outcome.value = FirstPart(replies[2].reply).text

\* get_weather was invoked, its result was threaded through the second call
\* and the second call's answer was returned
C6_Witness ==
    /\ script = "tool_calling" /\ pc = "done" /\ outcome.kind = "return"
    /\ Len(calls) = 2 /\ invoked # <<>> /\ invoked[1].name = "get_weather"
    /\ result = [temperature_2m |-> 20]
    /\ outcome.value = Str("It is 12 degrees in London.")

\* C7: gen_final_response invokes a local function at most once and issues at
\* most two model calls, and returns the second response even when that
\* response requests another function call.
C7_AtMostOneRound ==
    script = "tool_calling" =>
        /\ Len(invoked) <= 1
        /\ Len(calls) <= 2
        /\ Len(replies) <= 2
        /\ Len(replies) = 2 =>
               /\ pc \in {"done", "idle"}
               /\ ~IsTransportError(replies[2].reply) =>
                      outcome = Returned(FirstPart(replies[2].reply).text)

\* the second response asked for another function call and the run ended
C7_Witness ==
    /\ script = "tool_calling" /\ pc = "done"
    /\ final_response # None
    /\ FirstPart(final_response).function_call # None
    /\ outcome = Returned(None) /\ Len(invoked) = 1

\* C8: a request for a function outside {get_weather, search_kb} makes
\* gen_final_response fail with the unknown-tool error (call_function's
\* ValueError): no function invoked, no second call, nothing appended, no
\* answer returned.
C8_UnknownToolRaises ==
    (/\ script = "tool_calling" /\ response # None
     /\ FirstPart(response).function_call # None
     /\ FirstPart(response).function_call.name \notin {"get_weather", "search_kb"}) =>
        /\ outcome = Raised("ValueError")
        /\ pc = "done"
        /\ invoked = <<>>
        /\ Len(calls) = 1
        /\ contents = calls[1].content

\* the model asked for send_email and the run raised
C8_Witness ==
    /\ script = "tool_calling" /\ response # None
    /\ FirstPart(response).function_call # None
    /\ FirstPart(response).function_call.name = "send_email"
    /\ outcome.kind = "raise"

\* C9: in both process_calendar_request pipelines, when the model call of a
\* stage fails (transport error or unparseable output) that call is the last
\* one of the run (no later stage, no retry) and the run raises, returning
\* nothing; no stage's call is issued twice.
C9_FailureAbortsRun ==
    script \in {"prompt_chaining", "routing"} =>
        /\ \A i \in DOMAIN replies :
               FailedAt(i) =>
                   /\ Len(calls) = i /\ Len(replies) = i
                   /\ pc = "done"
                   /\ outcome = Raised(FailureOf(replies[i].reply))
        /\ \A i, j \in DOMAIN calls : calls[i].fn = calls[j].fn => i = j
        /\ (outcome.kind = "return" /\ outcome.value # None) =>
               /\ \A i \in DOMAIN replies : ~FailedAt(i)
               /\ Len(replies) = Len(calls)
               /\ Len(calls) = IF script = "routing" THEN 2 ELSE 3

\* the second stage of the prompt chain failed after the gate had passed
C9_Witness ==
    /\ script = "prompt_chaining" /\ Len(replies) = 2 /\ FailedAt(2)
    /\ replies[2].fn = "parse_event_details"
    /\ outcome.kind = "raise"

\* C10: when the gate rejects (prompt chain: not a calendar event or score
\* below the threshold; routing: score below the threshold or unsupported
\* request type) the run returns None without raising, has issued exactly one
\* model call, and runs no downstream stage.
C10_RejectionIsNoResult ==
    /\ (Extracted /\ (\/ ~response_json.is_calendar_event
                      \/ response_json.confidence_score < Threshold)) =>
           /\ outcome = Returned(None)
           /\ pc \in {"done", "idle"}
           /\ Len(calls) = 1 /\ calls[1].fn = "extract_event_info"
           /\ Len(replies) = 1
    /\ (Routed /\ (\/ result_json.confidence_score < Threshold
                   \/ result_json.request_type \notin {"new_event", "modify_event"})) =>
           /\ outcome = Returned(None)
           /\ pc \in {"done", "idle"}
           /\ Len(calls) = 1 /\ calls[1].fn = "route_calendar_request"
           /\ Len(replies) = 1

\* a confident reply that the text is no calendar event was rejected
C10_Witness ==
    /\ Extracted /\ ~response_json.is_calendar_event
    /\ response_json.confidence_score = 90000000
    /\ outcome = Returned(None) /\ Logged("Gate check failed")

\* the declared order of the prompt chain's stages
ChainOrder == <<"extract_event_info", "parse_event_details", "generate_confirmation">>

\* C11: in the prompt chain the model calls are issued in the fixed order
\* extract_event_info, parse_event_details, generate_confirmation, each at
\* most once and, in a run that completes, each exactly once; a call is issued
\* only when every earlier call has returned; the gate is decided after the
\* first call has returned and before the second is issued.
C11_FixedOrderOneAtATime ==
    script = "prompt_chaining" =>
        /\ Len(calls) <= 3
        /\ \A i \in DOMAIN calls : calls[i].fn = ChainOrder[i]
        /\ \A i \in DOMAIN replies : replies[i].fn = ChainOrder[i]
        /\ Len(replies) <= Len(calls) /\ Len(calls) <= Len(replies) + 1
        /\ (Logged("Gate check passed") \/ Logged("Gate check failed")) =>
               Len(replies) >= 1 /\ response_json # None
        /\ Len(calls) >= 2 =>
               /\ Logged("Gate check passed")
               /\ response_json.is_calendar_event
               /\ ~(response_json.confidence_score < Threshold)
        /\ (Len(replies) = 1 /\ Logged("Gate check passed") /\ pc # "done") =>
               Len(calls) = 2
        /\ (outcome.kind = "return" /\ outcome.value # None) =>
               Len(calls) = 3 /\ Len(replies) = 3

\* a run whose gate passed has completed after its three calls
C11_Witness ==
    /\ script = "prompt_chaining" /\ pc = "done"
    /\ outcome.kind = "return" /\ outcome.value # None
    /\ Len(calls) = 3 /\ Logged("Gate check passed")

\* C12: the content sent by the prompt chain's third call (generate_confirmation)
\* is the text serialization of the EventDetails record that the second call
\* (parse_event_details) produced, never the raw response envelope.
C12_ThirdCallConsumesRecord ==
    (script = "prompt_chaining" /\ Len(calls) >= 3) =>
        /\ calls[3].content =
               model_dump_json(json_loads(FirstPart(replies[2].reply).text))
        /\ calls[3].content # model_dump_json(replies[2].reply)

\* C13: every structured result that reaches a gate check or the validator's
\* combine step has its confidence_score in [0,1] and conforms to its declared
\* schema; a reply that does not is treated as a failed call.
C13_GatedScoresInRange ==
    /\ Routed =>
           /\ result_json.confidence_score \in ScoreRange
           /\ result_json.request_type \in {"new_event", "modify_event", "other"}
    /\ Extracted => response_json.confidence_score \in ScoreRange
    /\ (script = "parallelization" /\ calendar_check_json # None) =>
           calendar_check_json.confidence_score \in ScoreRange
    /\ \A i \in DOMAIN replies :
           (/\ script \in {"routing", "prompt_chaining", "parallelization"}
            /\ i = 1 /\ ~CallFails(replies[i].reply)
            /\ replies[i].fn # "check_security"
            /\ json_loads(FirstPart(replies[i].reply).text).confidence_score
                   \notin ScoreRange) =>
               outcome.kind # "return"

\* C14: when the first model response of gen_final_response is a direct answer
\* (no function-call request) its text is returned at once: exactly one model
\* call was issued, no local function was invoked and the conversation is as
\* the caller passed it.
C14_DirectAnswerReturned ==
    (/\ script = "tool_calling" /\ response # None
     /\ FirstPart(response).function_call = None) =>
        /\ outcome = Returned(FirstPart(response).text)
        /\ outcome.value \in Answers
        /\ pc \in {"done", "idle"}
        /\ Len(calls) = 1 /\ Len(replies) = 1
        /\ invoked = <<>>
        /\ contents = calls[1].content
        /\ contents = <<UserTurn(user_input)>>

\* the model answered the policy question directly and the answer was returned
C14_Witness ==
    /\ script = "tool_calling" /\ pc = "done"
    /\ response # None /\ FirstPart(response).function_call = None
    /\ user_input = Str("What is the return policy?")
    /\ outcome = Returned(Str("Returns within 30 days."))

\* C15 as stated: the conversation the caller passes to gen_final_response is
\* the same when the operation has ended as it was at the call, on every path.
C15_ConversationUnchanged ==
    (script = "tool_calling" /\ pc = "done") => contents = calls[1].content

\* C15 amended: the caller's conversation is unchanged on the direct-answer
\* path and on every path that fails before the append (first call fails,
\* unknown tool, bad arguments, the tool raises); on the tool-call path it is
\* extended in place by exactly the two appended turns, its earlier turns kept;
\* the driver passes a fresh one-turn conversation to every run, so no run of
\* the script starts with turns left over from an earlier one.
C15_ConversationGrowsOnlyOnToolPath ==
    (script = "tool_calling" /\ calls # <<>>) =>
        /\ calls[1].content = <<UserTurn(user_input)>>
        /\ Len(calls) = 1 => contents = calls[1].content
        /\ Len(calls) = 2 =>
               /\ Len(contents) = Len(calls[1].content) + 2
               /\ SubSeq(contents, 1, Len(calls[1].content)) = calls[1].content
               /\ contents[Len(contents) - 1] = response.candidates[1].content
               /\ contents[Len(contents)].role = "user"
        /\ (pc = "done" /\ invoked = <<>>) => contents = calls[1].content
        /\ (pc = "done" /\ outcome = Raised("ToolError")) => contents = calls[1].content

\* the second run of the script has gone down the tool-call path and returned:
\* its conversation holds its own prompt and the two appended turns
C15_Witness ==
    /\ script = "tool_calling" /\ pc = "done" /\ runs = 2
    /\ outcome.kind = "return" /\ Len(calls) = 2
    /\ Len(contents) = 3 /\ contents[1] = UserTurn(user_input)

\* the document the named check's model call came back with in this run
AnswerOf(t) ==
    json_loads(FirstPart(
        replies[CHOOSE i \in DOMAIN replies : replies[i].fn = t].reply).text)

\* C16: for fixed replies of the calendar check and the security check,
\* validate_request returns the same is_valid whichever call completes first,
\* and that value is the one obtained by evaluating the calendar check and then
\* the security check, or the security check and then the calendar check.
C16_ResultIndependentOfInterleaving ==
    Validated =>
        /\ Len(replies) = 2
        /\ {replies[1].fn, replies[2].fn} = Tasks
        /\ outcome.value =
               ((AnswerOf("validate_calendar_request").is_calendar_request
                 /\ AnswerOf("validate_calendar_request").confidence_score > Threshold)
                /\ AnswerOf("check_security").is_safe)
        /\ outcome.value =
               (AnswerOf("check_security").is_safe
                /\ (AnswerOf("validate_calendar_request").is_calendar_request
                    /\ AnswerOf("validate_calendar_request").confidence_score > Threshold))

\* the security check completed first, said "safe", and the request was still
\* found not valid on the calendar check that completed after it
C16_Witness ==
    /\ Validated /\ Len(replies) = 2
    /\ replies[1].fn = "check_security" /\ replies[2].fn = "validate_calendar_request"
    /\ AnswerOf("check_security").is_safe
    /\ ~AnswerOf("validate_calendar_request").is_calendar_request
    /\ outcome.value = FALSE
====
